---- MODULE Spec2Model ----
(***************************************************************************)
(* elasticsearch-mcp-server (src/index.ts): the process lifecycle of       *)
(* main(), the five tool handlers registered by                            *)
(* createElasticsearchMcpServer, and the text each handler builds from     *)
(* the upstream response.                                                  *)
(*                                                                         *)
(* JavaScript values are tagged records.  An object is the sequence of its *)
(* own properties in insertion order, an array the sequence of its         *)
(* elements.  Texts are strings; every conversion the handlers apply       *)
(* (template literals, JSON.stringify with and without indentation,        *)
(* Array.prototype.join, String.prototype.trim) is computed.               *)
(***************************************************************************)
EXTENDS Integers, Sequences, FiniteSets, TLC

\* ------------------------------------------------------------------ bounds
\* Longest raw string a caller passes for index / alias / index_or_alias.
MaxLen == 2
\* Most rows a _cat response carries.
MaxRows == 2
\* Most hits a search response carries.
MaxHits == 2

\* ------------------------------------------------------- JavaScript values
Undefined == [t |-> "undefined"]
JNull == [t |-> "null"]
JNum(n) == [t |-> "number", n |-> n]
JStr(s) == [t |-> "string", s |-> s]
JArr(a) == [t |-> "array", a |-> a]
JObj(o) == [t |-> "object", o |-> o]
Prop(k, v) == [k |-> k, v |-> v]

\* v == null || v === undefined: a property read on it is a TypeError.
IsNullish(v) == v.t \in {"undefined", "null"}

\* ToBoolean, as applied by ||, && and if.
Truthy(v) ==
  CASE v.t \in {"undefined", "null"} -> FALSE
    [] v.t = "boolean" -> v.b
    [] v.t = "number" -> v.n # 0
    [] v.t = "string" -> v.s # ""
    [] OTHER -> TRUE

\* a || b
OrElse(a, b) == IF Truthy(a) THEN a ELSE b

\* k in v, for an object v whose prototype chain is not consulted.
HasOwn(v, k) == v.t = "object" /\ \E i \in 1..Len(v.o) : v.o[i].k = k

\* v[k] for a non-nullish v: the own property, else undefined.
Get(v, k) ==
  IF HasOwn(v, k)
    THEN v.o[CHOOSE i \in 1..Len(v.o) : v.o[i].k = k /\ \A j \in 1..Len(v.o) : v.o[j].k = k => j <= i].v
    ELSE Undefined

\* Object.entries(v) / Object.keys(v) of an object.
Entries(v) == IF v.t = "object" THEN v.o ELSE <<>>
Keys(v) == [i \in 1..Len(Entries(v)) |-> JStr(Entries(v)[i].k)]

\* Array.prototype.join on an array of strings.
RECURSIVE Join(_, _)
Join(a, sep) ==
  IF a = <<>> THEN ""
  ELSE IF Len(a) = 1 THEN a[1]
  ELSE a[1] \o sep \o Join(Tail(a), sep)

\* `${v}` : ToString of a value inside a template literal.
RECURSIVE TemplateStr(_)
TemplateStr(v) ==
  CASE v.t = "undefined" -> "undefined"
    [] v.t = "null" -> "null"
    [] v.t = "boolean" -> IF v.b THEN "true" ELSE "false"
    [] v.t = "number" -> ToString(v.n)
    [] v.t = "string" -> v.s
    [] v.t = "array" ->
         Join([i \in 1..Len(v.a) |->
                IF IsNullish(v.a[i]) THEN "" ELSE TemplateStr(v.a[i])], ",")
    [] OTHER -> "[object Object]"

\* The properties JSON.stringify keeps: those whose value is not undefined.
RECURSIVE Defined(_)
Defined(o) ==
  IF o = <<>> THEN <<>>
  ELSE IF Head(o).v.t = "undefined" THEN Defined(Tail(o))
  ELSE <<Head(o)>> \o Defined(Tail(o))

Spaces(n) == Join([i \in 1..n |-> "  "], "")
Quote(s) == "\"" \o s \o "\""

\* JSON.stringify(v): the compact form.
RECURSIVE Stringify(_)
Stringify(v) ==
  CASE v.t \in {"undefined", "null"} -> "null"
    [] v.t = "boolean" -> IF v.b THEN "true" ELSE "false"
    [] v.t = "number" -> ToString(v.n)
    [] v.t = "string" -> Quote(v.s)
    [] v.t = "array" ->
         "[" \o Join([i \in 1..Len(v.a) |-> Stringify(v.a[i])], ",") \o "]"
    [] OTHER ->
         LET o == Defined(v.o) IN
         "{" \o Join([i \in 1..Len(o) |-> Quote(o[i].k) \o ":" \o Stringify(o[i].v)], ",") \o "}"

\* JSON.stringify(v, null, 2): the indented form, at nesting depth d.
RECURSIVE Pretty(_, _)
Pretty(v, d) ==
  CASE v.t \in {"undefined", "null"} -> "null"
    [] v.t = "boolean" -> IF v.b THEN "true" ELSE "false"
    [] v.t = "number" -> ToString(v.n)
    [] v.t = "string" -> Quote(v.s)
    [] v.t = "array" ->
         IF v.a = <<>> THEN "[]"
         ELSE "[\n"
              \o Join([i \in 1..Len(v.a) |-> Spaces(d + 1) \o Pretty(v.a[i], d + 1)], ",\n")
              \o "\n" \o Spaces(d) \o "]"
    [] OTHER ->
         LET o == Defined(v.o) IN
         IF o = <<>> THEN "{}"
         ELSE "{\n"
              \o Join([i \in 1..Len(o) |->
                        Spaces(d + 1) \o Quote(o[i].k) \o ": " \o Pretty(o[i].v, d + 1)], ",\n")
              \o "\n" \o Spaces(d) \o "}"

\* String.prototype.trim on a string held as the sequence of its characters.
RECURSIVE TrimStart(_)
TrimStart(s) == IF s # <<>> /\ Head(s) = " " THEN TrimStart(Tail(s)) ELSE s
RECURSIVE TrimEnd(_)
TrimEnd(s) ==
  IF s # <<>> /\ s[Len(s)] = " " THEN TrimEnd(SubSeq(s, 1, Len(s) - 1)) ELSE s
Trim(s) == TrimEnd(TrimStart(s))

\* The string a character sequence spells.
Text(s) == Join(s, "")

\* String.prototype.trim on a text: white space is the blank and the line feed.
IsSpace(c) == c = " " \/ c = "\n"
RECURSIVE StrTrimStart(_)
StrTrimStart(s) ==
  IF Len(s) > 0 /\ IsSpace(SubSeq(s, 1, 1)) THEN StrTrimStart(SubSeq(s, 2, Len(s))) ELSE s
RECURSIVE StrTrimEnd(_)
StrTrimEnd(s) ==
  IF Len(s) > 0 /\ IsSpace(SubSeq(s, Len(s), Len(s)))
    THEN StrTrimEnd(SubSeq(s, 1, Len(s) - 1)) ELSE s
StrTrim(s) == StrTrimEnd(StrTrimStart(s))

\* ------------------------------------------------------------ input sets
\* Sequences over S of length at most n.
SeqsUpTo(S, n) == UNION {[1..k -> S] : k \in 0..n}

\* process.env.ES_URL, as the sequence of its parts.
EnvUrls ==
  { <<>>, <<" ">>, <<"localhost">>, <<"http://", " ", "localhost">>,
    <<"http://", "localhost", ":9200">> }
\* process.env.ES_API_KEY, as the sequence of its characters.
EnvApiKeys == { <<>>, <<"k", "e", "y">> }

\* What a caller passes for a string parameter.
Chars == {" ", "a"}
RawStrings == SeqsUpTo(Chars, MaxLen)

MatchAll == Prop("query", JObj(<<Prop("match_all", JObj(<<>>))>>))
\* What a caller passes for queryBody; the last two are not objects.
QueryBodies ==
  { JObj(<<MatchAll, Prop("size", JNum(1))>> \o f) :
      f \in {<<>>, <<Prop("from", JNum(2))>>, <<Prop("from", JNull)>>} }
  \cup {JObj(<<>>), JNull, JStr("match_all")}

\* ------------------------------------------------------ upstream responses
\* What fetch and the body readers can deliver to a handler: fetch rejects
\* (kind "network_error"), response.ok is false ("http_error"), response.json()
\* rejects ("invalid_json"), or the decoded value `data` ("json").
NetworkError == [kind |-> "network_error", statusText |-> "", bodyText |-> "", data |-> Undefined]
HttpError ==
  [kind |-> "http_error", statusText |-> "Internal Server Error",
   bodyText |-> "{\"error\":\"boom\"}", data |-> Undefined]
InvalidJson == [kind |-> "invalid_json", statusText |-> "OK", bodyText |-> "<html>", data |-> Undefined]
Ok(v) == [kind |-> "json", statusText |-> "OK", bodyText |-> "", data |-> v]
Failures == {NetworkError, HttpError, InvalidJson}

\* Rows of GET /_cat/indices?format=json: a row with the four fields the
\* handler reads, a row as Elasticsearch names them, and a null row.
IndexRows ==
  { JObj(<<Prop("index", JStr("a")), Prop("health", JStr("green")),
           Prop("status", JStr("open")), Prop("docsCount", JNum(5))>>),
    JObj(<<Prop("health", JStr("yellow")), Prop("index", JStr("b")),
           Prop("docs.count", JStr("7"))>>),
    JNull }
\* Rows of GET /_cat/aliases?format=json.
AliasRows ==
  { JObj(<<Prop("alias", JStr("al")), Prop("index", JStr("a"))>>),
    JObj(<<Prop("index", JStr("b")), Prop("filter", JStr("-")), Prop("alias", JStr("al"))>>),
    JNull }
ErrorDoc == JObj(<<Prop("error", JStr("boom"))>>)
CatDocs(rows) == {JArr(r) : r \in SeqsUpTo(rows, MaxRows)} \cup {ErrorDoc, JNull}

\* Bodies of GET /{name}/_mapping: per index name an entry, with or without
\* "mappings".
Strict == JObj(<<Prop("dynamic", JStr("strict"))>>)
MappingEntries ==
  { JObj(<<>>), JObj(<<Prop("mappings", JNull)>>), JObj(<<Prop("mappings", JObj(<<>>))>>),
    JObj(<<Prop("mappings", Strict)>>) }
MappingDocs ==
  { JObj(a \o b) :
      a \in {<<>>} \cup {<<Prop("a", e)>> : e \in MappingEntries},
      b \in {<<>>} \cup {<<Prop("b", e)>> : e \in MappingEntries} }
  \cup {JNull}

\* Bodies of POST /{name}/_search.
Sources == { Undefined, JObj(<<Prop("title", JStr("x")), Prop("body", JStr("y"))>>) }
Highlights ==
  { Undefined, JObj(<<Prop("title", JArr(<<>>))>>),
    JObj(<<Prop("title", JArr(<<JStr("<em>x</em>")>>)),
           Prop("tags", JArr(<<JStr("<em>t</em>"), JStr("<em>u</em>")>>))>>) }
Hit(src, hl) ==
  JObj((IF src = Undefined THEN <<>> ELSE <<Prop("_source", src)>>)
       \o (IF hl = Undefined THEN <<>> ELSE <<Prop("highlight", hl)>>))
Hits == {Hit(src, hl) : src \in Sources, hl \in Highlights}
Totals ==
  { <<>>, <<Prop("total", JNum(2))>>,
    <<Prop("total", JObj(<<Prop("value", JNum(2)), Prop("relation", JStr("eq"))>>))>> }
SearchDocs ==
  { JObj(<<Prop("hits", JObj(tot \o <<Prop("hits", JArr(hs))>>))>>) :
      tot \in Totals, hs \in SeqsUpTo(Hits, MaxHits) }
  \cup { ErrorDoc, JNull, JObj(<<Prop("hits", JObj(<<>>))>>),
         JObj(<<Prop("hits", JObj(<<Prop("hits", JArr(<<JNull>>))>>))>>) }

Tools == {"list_indices", "list_aliases", "get_mappings_of_index", "get_mappings_of_alias", "search"}
DocsOf(tool) ==
  CASE tool = "list_indices" -> CatDocs(IndexRows)
    [] tool = "list_aliases" -> CatDocs(AliasRows)
    [] tool = "search" -> SearchDocs
    [] OTHER -> MappingDocs
Responses(tool) == Failures \cup {Ok(v) : v \in DocsOf(tool)}

\* ------------------------------------------------------------------ schemas
\* z.string().url(): the WHATWG parser accepts the text.  Over the parts of
\* EnvUrls: a scheme first, a host right after it, and no blank anywhere.
IsUrl(u) ==
  /\ Len(u) >= 2
  /\ u[1] = "http://"
  /\ \A i \in 1..Len(u) : u[i] # " "

\* Mutant of ConfigSchema: .min(1) without .url().
ConfigSchemaAnyText(cfg) ==
  [ok |-> Len(Trim(cfg.url)) >= 1, url |-> Text(Trim(cfg.url)), apiKey |-> Text(Trim(cfg.apiKey))]

\* ConfigSchema.parse(config): url is trimmed, then must be non-empty and a
\* URL; apiKey is trimmed and otherwise unconstrained.
ConfigSchema(cfg) ==
  LET u == Trim(cfg.url) IN
  [ok |-> Len(u) >= 1 /\ IsUrl(u), url |-> Text(u), apiKey |-> Text(Trim(cfg.apiKey))]

\* Mutant of NameSchema: .min(1) without .trim().
NameSchemaUntrimmed(raw) == [ok |-> Len(raw) >= 1, value |-> Text(raw)]

\* z.string().trim().min(1, ...): the schema of index, alias and index_or_alias.
NameSchema(raw) ==
  LET t == Trim(raw) IN [ok |-> Len(t) >= 1, value |-> Text(t)]

\* z.record(z.any()).refine(JSON round trip): any object decoded from JSON.
QueryBodySchema(v) == v.t = "object"

HasName(tool) == tool \in {"get_mappings_of_index", "get_mappings_of_alias", "search"}
\* The declared parameter schema of a tool, applied to the raw arguments.
SchemaAccepts(tool, raw, qb) ==
  /\ HasName(tool) => NameSchema(raw).ok
  /\ tool = "search" => QueryBodySchema(qb)

\* ----------------------------------------------------------------- requests
Get_(u) == [method |-> "GET", url |-> u, headers |-> <<>>, body |-> ""]

ListIndicesRequest(url) == Get_(url \o "/_cat/indices?format=json")
ListAliasesRequest(url) == Get_(url \o "/_cat/aliases?format=json")
IndexMappingRequest(url, index) == Get_(url \o "/" \o index \o "/_mapping")
AliasMappingRequest(url, alias) == Get_(url \o "/" \o alias \o "/_mapping")

\* Mutant of Spread: a default page size is filled in.
SpreadWithDefaultSize(queryBody) ==
  JObj(Entries(queryBody)
       \o (IF HasOwn(queryBody, "size") THEN <<>> ELSE <<Prop("size", JNum(10))>>))

\* const searchRequest = {...queryBody}: the own properties, in order.
Spread(queryBody) == JObj(Entries(queryBody))
SearchRequest(url, index_or_alias, queryBody) ==
  [method |-> "POST",
   url |-> url \o "/" \o index_or_alias \o "/_search",
   headers |-> <<Prop("Content-Type", "application/json")>>,
   body |-> Stringify(Spread(queryBody))]

\* Mutant of RequestOf: the configured key is sent along.
RequestWithApiKey(cfg, c) ==
  [method |-> IF c.tool = "search" THEN "POST" ELSE "GET",
   url |-> cfg.url \o "/" \o c.name,
   headers |-> <<Prop("Authorization", "ApiKey " \o cfg.apiKey)>>,
   body |-> ""]

\* The fetch a handler issues before it suspends.
RequestOf(cfg, c) ==
  CASE c.tool = "list_indices" -> ListIndicesRequest(cfg.url)
    [] c.tool = "list_aliases" -> ListAliasesRequest(cfg.url)
    [] c.tool = "get_mappings_of_index" -> IndexMappingRequest(cfg.url, c.name)
    [] c.tool = "get_mappings_of_alias" -> AliasMappingRequest(cfg.url, c.name)
    [] OTHER -> SearchRequest(cfg.url, c.name, c.queryBody)

\* ----------------------------------------------------------------- handlers
Fragment(text) == [type |-> "text", text |-> text]
Thrown(m) == [threw |-> TRUE, message |-> m, content |-> <<>>]
Returned(c) == [threw |-> FALSE, message |-> "", content |-> c]

\* Mutant of CatchError: the error is passed on to the caller.
Rethrow(outcome) == outcome

\* The catch block of every handler: one fragment "Error: <message>".
CatchError(outcome) ==
  IF outcome.threw
    THEN Returned(<<Fragment("Error: " \o outcome.message)>>)
    ELSE outcome

\* await fetch(...); if (!response.ok) throw ...; await response.json()
\* `detail` is what the handler appends to the status text.
Fetched(resp, detail) ==
  CASE resp.kind = "network_error" -> Thrown("fetch failed")
    [] resp.kind = "http_error" ->
         Thrown("Failed to fetch indices: " \o resp.statusText \o detail)
    [] resp.kind = "invalid_json" -> Thrown("Unexpected token < in JSON at position 0")
    [] OTHER -> Returned(<<>>)

\* responseData.map(row => record): a TypeError unless responseData is an
\* array without null rows.
MapThrows(responseData) ==
  \/ responseData.t # "array"
  \/ \E i \in 1..Len(responseData.a) : IsNullish(responseData.a[i])
MapError(responseData) ==
  IF IsNullish(responseData) THEN "Cannot read properties of null (reading 'map')"
  ELSE IF responseData.t # "array" THEN "responseData.map is not a function"
  ELSE "Cannot read properties of null (reading 'index')"

\* Mutant of IndexInfo: the count is read under the name Elasticsearch gives it.
IndexInfoDotted(index) ==
  JObj(<<Prop("index", Get(index, "index")), Prop("health", Get(index, "health")),
         Prop("status", Get(index, "status")), Prop("docsCount", Get(index, "docs.count"))>>)

\* (index) => ({index, health, status, docsCount})
IndexInfo(index) ==
  JObj(<<Prop("index", Get(index, "index")), Prop("health", Get(index, "health")),
         Prop("status", Get(index, "status")), Prop("docsCount", Get(index, "docsCount"))>>)
\* (alias) => ({alias, index})
AliasInfo(alias) ==
  JObj(<<Prop("alias", Get(alias, "alias")), Prop("index", Get(alias, "index"))>>)

TryListIndices(resp) ==
  IF Fetched(resp, "").threw THEN Fetched(resp, "")
  ELSE IF MapThrows(resp.data) THEN Thrown(MapError(resp.data))
  ELSE
    LET indicesInfo == JArr([i \in 1..Len(resp.data.a) |-> IndexInfo(resp.data.a[i])]) IN
    Returned(<<Fragment("Found " \o ToString(Len(indicesInfo.a)) \o " indices"),
               Fragment(Pretty(indicesInfo, 0))>>)

TryListAliases(resp) ==
  IF Fetched(resp, "").threw THEN Fetched(resp, "")
  ELSE IF MapThrows(resp.data) THEN Thrown(MapError(resp.data))
  ELSE
    LET indicesInfo == JArr([i \in 1..Len(resp.data.a) |-> AliasInfo(resp.data.a[i])]) IN
    Returned(<<Fragment("Found " \o ToString(Len(indicesInfo.a)) \o " aliases"),
               Fragment(Pretty(indicesInfo, 0))>>)

\* Mutant of MappingsOf: responseData[index]?.mappings, without the default.
MappingsNotDefaulted(responseData, index) == Get(Get(responseData, index), "mappings")

\* responseData[index]?.mappings || {}
MappingsOf(responseData, index) ==
  LET entry == Get(responseData, index) IN
  OrElse(IF IsNullish(entry) THEN Undefined ELSE Get(entry, "mappings"), JObj(<<>>))

TryGetMappingsOfIndex(index, resp) ==
  IF Fetched(resp, "").threw THEN Fetched(resp, "")
  ELSE IF IsNullish(resp.data)
    THEN Thrown("Cannot read properties of null (reading '" \o index \o "')")
  ELSE
    Returned(<<Fragment("Mappings for index: " \o index),
               Fragment("Mappings for index " \o index \o ": "
                        \o Pretty(MappingsOf(resp.data, index), 0))>>)

TryGetMappingsOfAlias(alias, resp) ==
  IF Fetched(resp, "").threw THEN Fetched(resp, "")
  ELSE IF IsNullish(resp.data) THEN Thrown("Cannot convert undefined or null to object")
  ELSE
    Returned(<<Fragment("Mappings for alias: " \o alias),
               Fragment("Indexes for alias " \o alias \o ": " \o Pretty(JArr(Keys(resp.data)), 0)),
               Fragment("Mappings for alias " \o alias \o ": "
                        \o Pretty(OrElse(resp.data, JObj(<<>>)), 0))>>)

\* result.hits.hits.map(hit => ...) reads hit.highlight: a TypeError unless
\* result.hits.hits is an array without null hits.
HitsThrow(result) ==
  \/ IsNullish(result)
  \/ IsNullish(Get(result, "hits"))
  \/ Get(Get(result, "hits"), "hits").t # "array"
  \/ \E i \in 1..Len(Get(Get(result, "hits"), "hits").a) :
       IsNullish(Get(Get(result, "hits"), "hits").a[i])
HitsError(result) ==
  IF IsNullish(result) THEN "Cannot read properties of null (reading 'hits')"
  ELSE IF IsNullish(Get(result, "hits")) THEN "Cannot read properties of undefined (reading 'hits')"
  ELSE IF Get(Get(result, "hits"), "hits").t # "array"
    THEN "Cannot read properties of undefined (reading 'map')"
  ELSE "Cannot read properties of null (reading 'highlight')"

\* highlightedField.length, for the arrays and strings that have one.
LengthOf(v) ==
  CASE v.t = "array" -> Len(v.a)
    [] v.t = "string" -> Len(v.s)
    [] OTHER -> 0

\* The first loop: one line per highlight entry that has fragments.
HighlightLine(field, highlightedField) ==
  IF Truthy(highlightedField) /\ LengthOf(highlightedField) > 0
    THEN field \o " (highlighted): "
         \o Join([i \in 1..Len(highlightedField.a) |->
                   IF IsNullish(highlightedField.a[i]) THEN ""
                   ELSE TemplateStr(highlightedField.a[i])], " ... ")
         \o "\n"
    ELSE ""

\* The second loop: one line per source field that is not a key of highlight.
SourceLine(field, value, highlightedFields) ==
  IF ~HasOwn(highlightedFields, field)
    THEN field \o ": " \o Stringify(value) \o "\n"
    ELSE ""

\* The text of one hit's fragment.
HitContent(hit) ==
  LET highlightedFields == OrElse(Get(hit, "highlight"), JObj(<<>>))
      sourceData == OrElse(Get(hit, "_source"), JObj(<<>>))
      hl == Entries(highlightedFields)
      src == Entries(sourceData)
      content ==
        Join([i \in 1..Len(hl) |-> HighlightLine(hl[i].k, hl[i].v)], "")
        \o Join([i \in 1..Len(src) |-> SourceLine(src[i].k, src[i].v, highlightedFields)], "")
  IN StrTrim(content)

\* typeof total === "number" ? total : total?.value || 0
TotalOf(total) ==
  IF total.t = "number" THEN total
  ELSE OrElse(IF IsNullish(total) THEN Undefined ELSE Get(total, "value"), JNum(0))

\* Mutant of FromOf: the offset is read from the wrong key.
FromOfSize(queryBody) == OrElse(Get(queryBody, "size"), JNum(0))

\* queryBody.from || 0
FromOf(queryBody) == OrElse(Get(queryBody, "from"), JNum(0))

TrySearch(queryBody, resp) ==
  IF Fetched(resp, " response: " \o resp.bodyText).threw
    THEN Fetched(resp, " response: " \o resp.bodyText)
  ELSE IF HitsThrow(resp.data) THEN Thrown(HitsError(resp.data))
  ELSE
    LET hits == Get(Get(resp.data, "hits"), "hits").a
        from == FromOf(queryBody)
        contentFragments == [i \in 1..Len(hits) |-> Fragment(HitContent(hits[i]))]
        metadataFragment ==
          Fragment("Total results: " \o TemplateStr(TotalOf(Get(Get(resp.data, "hits"), "total")))
                   \o ", showing " \o ToString(Len(hits))
                   \o " from position " \o TemplateStr(from))
    IN Returned(<<metadataFragment>> \o contentFragments)

\* The try block of c.tool's handler, once fetch has settled with resp.
Try(c, resp) ==
  CASE c.tool = "list_indices" -> TryListIndices(resp)
    [] c.tool = "list_aliases" -> TryListAliases(resp)
    [] c.tool = "get_mappings_of_index" -> TryGetMappingsOfIndex(c.name, resp)
    [] c.tool = "get_mappings_of_alias" -> TryGetMappingsOfAlias(c.name, resp)
    [] OTHER -> TrySearch(c.queryBody, resp)

\* The line the catch block writes to the error stream.
LogPrefix(tool) ==
  CASE tool = "list_indices" -> "Failed to list indices: "
    [] tool = "list_aliases" -> "Failed to list aliases: "
    [] tool = "search" -> "Search failed: "
    [] OTHER -> "Failed to get mappings: "
Logged(tool, outcome) ==
  IF outcome.threw THEN <<LogPrefix(tool) \o outcome.message>> ELSE <<>>

\* -------------------------------------------------------------------- state
VARIABLES
  config,        \* the module-level config read from the environment
  mainPc,        \* where main() is: "start", "created", "connected", "serving", "rejected"
  validated,     \* validatedConfig, closed over by the handlers
  transport,     \* "new", "connected", "closed"
  sigintHandler, \* the SIGINT listener is installed
  sigintSeen,    \* a SIGINT has been delivered to the live process
  shutdown,      \* the listener's progress: "none", "closing", "closed"
  proc,          \* "running" or "exited"
  exitCode,      \* "none", "0", "1", or "SIGINT" (killed by the signal)
  hpc,           \* the handler: "idle", "invalid", "awaiting", "returned"
  call,          \* the invocation being served
  sent,          \* the upstream requests issued for it
  response,      \* what fetch settled with
  result,        \* what the handler handed back to the transport layer
  stderr         \* lines written to the error stream for it

vars ==
  <<config, mainPc, validated, transport, sigintHandler, sigintSeen, shutdown, proc,
    exitCode, hpc, call, sent, response, result, stderr>>

NoConfig == [ok |-> FALSE, url |-> "", apiKey |-> ""]
NoCall == [tool |-> "", raw |-> <<>>, name |-> "", queryBody |-> Undefined]
NoResponse == [kind |-> "none", statusText |-> "", bodyText |-> "", data |-> Undefined]
NoResult == [threw |-> FALSE, message |-> "", content |-> <<>>]

\* const config = {url: process.env.ES_URL || "", apiKey: process.env.ES_API_KEY || ""}
Init ==
  /\ config \in [url : EnvUrls, apiKey : EnvApiKeys]
  /\ mainPc = "start"
  /\ validated = NoConfig
  /\ transport = "new"
  /\ sigintHandler = FALSE
  /\ sigintSeen = FALSE
  /\ shutdown = "none"
  /\ proc = "running"
  /\ exitCode = "none"
  /\ hpc = "idle"
  /\ call = NoCall
  /\ sent = <<>>
  /\ response = NoResponse
  /\ result = NoResult
  /\ stderr = <<>>

serving == <<hpc, call, sent, response, result, stderr>>
lifecycle == <<mainPc, validated, transport, sigintHandler, shutdown, proc, exitCode>>

\* main: new StdioServerTransport(); await createElasticsearchMcpServer(config)
CreateServer ==
  /\ proc = "running" /\ mainPc = "start"
  /\ IF ConfigSchema(config).ok
       THEN mainPc' = "created" /\ validated' = ConfigSchema(config)
       ELSE mainPc' = "rejected" /\ validated' = validated
  /\ UNCHANGED <<config, transport, sigintHandler, sigintSeen, shutdown, proc, exitCode, serving>>

\* main().catch(error => { console.error(...); process.exit(1) })
MainCatch ==
  /\ proc = "running" /\ mainPc = "rejected"
  /\ proc' = "exited" /\ exitCode' = "1"
  /\ UNCHANGED <<config, mainPc, validated, transport, sigintHandler, sigintSeen, shutdown, serving>>

\* await server.connect(transport)
Connect ==
  /\ proc = "running" /\ mainPc = "created"
  /\ transport' = "connected" /\ mainPc' = "connected"
  /\ UNCHANGED <<config, validated, sigintHandler, sigintSeen, shutdown, proc, exitCode, serving>>

\* process.on("SIGINT", ...)
RegisterSigint ==
  /\ proc = "running" /\ mainPc = "connected"
  /\ sigintHandler' = TRUE /\ mainPc' = "serving"
  /\ UNCHANGED <<config, validated, transport, sigintSeen, shutdown, proc, exitCode, serving>>

\* A handler's return and the reply that follows it are one chain of promise
\* continuations: no event-loop callback runs in between.
BetweenCallbacks == hpc \notin {"invalid", "returned"}

\* The signal arrives.  With the listener installed it runs up to
\* `await server.close()`; without it the default disposition ends the process.
Sigint ==
  /\ proc = "running" /\ BetweenCallbacks
  /\ sigintSeen' = TRUE
  /\ IF sigintHandler
       THEN /\ shutdown' = (IF shutdown = "none" THEN "closing" ELSE shutdown)
            /\ UNCHANGED <<proc, exitCode>>
       ELSE /\ proc' = "exited" /\ exitCode' = "SIGINT"
            /\ UNCHANGED shutdown
  /\ UNCHANGED <<config, mainPc, validated, transport, sigintHandler, serving>>

\* server.close() settles: the transport is closed.
CloseCompletes ==
  /\ proc = "running" /\ BetweenCallbacks /\ shutdown = "closing"
  /\ transport' = "closed" /\ shutdown' = "closed"
  /\ UNCHANGED <<config, mainPc, validated, sigintHandler, sigintSeen, proc, exitCode, serving>>

\* Mutant of ExitZero: server.close() is not awaited.
ExitBeforeClose ==
  /\ proc = "running" /\ BetweenCallbacks /\ shutdown \in {"closing", "closed"}
  /\ proc' = "exited" /\ exitCode' = "0"
  /\ UNCHANGED <<config, mainPc, validated, transport, sigintHandler, sigintSeen, shutdown, serving>>

\* process.exit(0), the statement after the await.
ExitZero ==
  /\ proc = "running" /\ BetweenCallbacks /\ shutdown = "closed"
  /\ proc' = "exited" /\ exitCode' = "0"
  /\ UNCHANGED <<config, mainPc, validated, transport, sigintHandler, sigintSeen, shutdown, serving>>

\* The transport delivers a tools/call: main has returned, the transport is
\* open, server.close() has not been called and no other call is being served.
Accepting ==
  /\ proc = "running" /\ mainPc = "serving"
  /\ transport = "connected" /\ shutdown = "none"
  /\ hpc = "idle"

\* A tools/call whose arguments the declared schema rejects: the handler is
\* not run and nothing is fetched.
InvokeRejected ==
  /\ Accepting
  /\ \E tool \in Tools, raw \in RawStrings, qb \in QueryBodies :
       /\ HasName(tool)
       /\ tool # "search" => qb = JNull
       /\ ~SchemaAccepts(tool, raw, qb)
       /\ call' = [tool |-> tool, raw |-> raw, name |-> "", queryBody |-> qb]
  /\ hpc' = "invalid"
  /\ sent' = <<>> /\ response' = NoResponse /\ result' = NoResult /\ stderr' = <<>>
  /\ UNCHANGED <<config, sigintSeen, lifecycle>>

\* A tools/call the schema accepts: the handler runs up to `await fetch(...)`.
InvokeAccepted ==
  /\ Accepting
  /\ \E tool \in Tools, raw \in RawStrings, qb \in QueryBodies :
       /\ ~HasName(tool) => raw = <<>>
       /\ tool # "search" => qb = JNull
       /\ SchemaAccepts(tool, raw, qb)
       /\ LET c == [tool |-> tool, raw |-> raw,
                    name |-> IF HasName(tool) THEN NameSchema(raw).value ELSE "",
                    queryBody |-> IF tool = "search" THEN qb ELSE Undefined]
          IN call' = c /\ sent' = <<RequestOf(validated, c)>>
  /\ hpc' = "awaiting"
  /\ response' = NoResponse /\ result' = NoResult /\ stderr' = <<>>
  /\ UNCHANGED <<config, sigintSeen, lifecycle>>

\* fetch settles and the handler runs to its return.
Resume ==
  /\ proc = "running" /\ hpc = "awaiting"
  /\ \E resp \in Responses(call.tool) :
       LET outcome == Try(call, resp) IN
       /\ response' = resp
       /\ result' = CatchError(outcome)
       /\ stderr' = Logged(call.tool, outcome)
  /\ hpc' = "returned"
  /\ UNCHANGED <<config, sigintSeen, call, sent, lifecycle>>

\* The protocol layer writes the outcome to the transport; the call is over.
Reply ==
  /\ proc = "running" /\ hpc \in {"invalid", "returned"}
  /\ hpc' = "idle" /\ call' = NoCall
  /\ sent' = <<>> /\ response' = NoResponse /\ result' = NoResult /\ stderr' = <<>>
  /\ UNCHANGED <<config, sigintSeen, lifecycle>>

Next ==
  \/ CreateServer
  \/ MainCatch
  \/ Connect
  \/ RegisterSigint
  \/ Sigint
  \/ CloseCompletes
  \/ ExitZero
  \/ InvokeRejected
  \/ InvokeAccepted
  \/ Resume
  \/ Reply

Spec == Init /\ [][Next]_vars

\* The event loop runs every continuation that is ready: main's steps, the
\* reply after a handler's return, the settling of server.close() and the exit
\* that follows it.  Nothing obliges a caller to invoke a tool, the upstream to
\* answer, or a signal to arrive.
FairSpec ==
  /\ Spec
  /\ WF_vars(CreateServer) /\ WF_vars(MainCatch) /\ WF_vars(Connect)
  /\ WF_vars(RegisterSigint) /\ WF_vars(CloseCompletes) /\ WF_vars(ExitZero)
  /\ WF_vars(Reply)

\* ------------------------------------------------------------------- claims
\* The lines of a text.
RECURSIVE LinesFrom(_, _, _)
LinesFrom(s, start, i) ==
  IF i > Len(s) THEN {SubSeq(s, start, Len(s))}
  ELSE IF SubSeq(s, i, i) = "\n" THEN {SubSeq(s, start, i - 1)} \cup LinesFrom(s, i + 1, i + 1)
  ELSE LinesFrom(s, start, i + 1)
Lines(s) == LinesFrom(s, 1, 1)

StartsWith(s, prefix) == Len(s) >= Len(prefix) /\ SubSeq(s, 1, Len(prefix)) = prefix

\* The handler has returned after fetch settled.
Returned_(tool) == hpc = "returned" /\ call.tool = tool
\* The decoded body has the shape the tool's endpoint answers with: an array
\* of row objects, an object keyed by index name, or {hits: {hits: [objects]}}.
AllObjects(v) == v.t = "array" /\ \A i \in 1..Len(v.a) : v.a[i].t = "object"
WellShaped(tool, data) ==
  CASE tool \in {"list_indices", "list_aliases"} -> AllObjects(data)
    [] tool = "search" -> AllObjects(Get(Get(data, "hits"), "hits"))
    [] OTHER -> data.t = "object"
\* The upstream call succeeded and its body can be processed.
Succeeded(tool) ==
  Returned_(tool) /\ response.kind = "json" /\ WellShaped(tool, response.data)

IsErrorResult(r) ==
  /\ ~r.threw
  /\ Len(r.content) = 1
  /\ r.content[1].type = "text"
  /\ StartsWith(r.content[1].text, "Error: ")

\* C1: whenever handling an invocation fails (fetch rejects, the status is not
\* a success, the body is not JSON, or the decoded value has a shape the
\* handler cannot process), the handler returns exactly one text fragment that
\* begins with "Error: ", throws nothing, and the process is still running.
C1_ErrorEnvelope ==
  (hpc = "returned" /\ (response.kind # "json" \/ ~WellShaped(call.tool, response.data)))
    => /\ IsErrorResult(result)
       /\ proc = "running" /\ exitCode = "none"
C1_Witness ==
  /\ Returned_("search") /\ response.kind = "json" /\ response.data = ErrorDoc
  /\ IsErrorResult(result)

\* The hits of the search response being rendered.
HitsOf(resp) == Get(Get(resp.data, "hits"), "hits").a
PlainLine(field, value) == field \o ": " \o Stringify(value)

\* C2: in a successful search every field of every hit's _source appears in
\* that hit's fragment either as its highlighted line or as its plain line
\* `field: <JSON value>`, never as both; a field that is not rendered
\* highlighted is rendered plain.
C2_EverySourceFieldRendered ==
  Succeeded("search") =>
    \A i \in 1..Len(HitsOf(response)) :
      LET hit == HitsOf(response)[i]
          src == Entries(Get(hit, "_source"))
          lines == Lines(result.content[i + 1].text)
      IN \A j \in 1..Len(src) :
           LET hl ==
                 LET h == Get(Get(hit, "highlight"), src[j].k) IN
                 /\ h.t = "array" /\ Len(h.a) > 0
                 /\ (src[j].k \o " (highlighted): "
                     \o Join([n \in 1..Len(h.a) |-> h.a[n].s], " ... ")) \in lines
               plain == PlainLine(src[j].k, src[j].v) \in lines
           IN (hl \/ plain) /\ ~(hl /\ plain)

\* What the metadata fragment must read for total T and offset F.
Metadata(T, n, F) ==
  "Total results: " \o T \o ", showing " \o ToString(n) \o " from position " \o F
ClaimedTotal(resp) ==
  LET total == Get(Get(resp.data, "hits"), "total") IN
  CASE total.t = "number" -> ToString(total.n)
    [] total.t = "object" /\ HasOwn(total, "value") -> TemplateStr(Get(total, "value"))
    [] OTHER -> "0"
HitFragmentsInOrder ==
  /\ Len(result.content) = Len(HitsOf(response)) + 1
  /\ \A i \in 1..Len(HitsOf(response)) :
       result.content[i + 1] = Fragment(HitContent(HitsOf(response)[i]))

Suffix(tool) == IF tool = "search" THEN "/_search" ELSE "/_mapping"

\* C4: an invocation whose required string parameter is empty or only white
\* space is rejected by the schema and causes no upstream request; an accepted
\* one addresses the upstream URL with the trimmed value.
C4_BlankNameNeverFetched ==
  (HasName(call.tool) /\ hpc # "idle") =>
    IF Trim(call.raw) = <<>>
      THEN hpc = "invalid" /\ sent = <<>>
      ELSE \A i \in 1..Len(sent) :
             sent[i].url = validated.url \o "/" \o Text(Trim(call.raw)) \o Suffix(call.tool)
C4_Witness ==
  /\ call.tool = "get_mappings_of_index" /\ call.raw = <<" ", " ">>
  /\ hpc = "invalid" /\ sent = <<>>

\* The record a row must yield: the row's own values for the given fields.
RECURSIVE Projected(_, _)
Projected(row, fields) ==
  IF fields = <<>> THEN <<>>
  ELSE (IF HasOwn(row, Head(fields)) THEN <<Prop(Head(fields), Get(row, Head(fields)))>> ELSE <<>>)
       \o Projected(row, Tail(fields))
CatResult(noun, fields) ==
  <<Fragment("Found " \o ToString(Len(response.data.a)) \o " " \o noun),
    Fragment(Pretty(JArr([i \in 1..Len(response.data.a) |->
                           JObj(Projected(response.data.a[i], fields))]), 0))>>

\* C5: on a successful response of N rows list_indices returns exactly two
\* fragments, `Found N indices` and the indented JSON array of N records in
\* row order, each carrying the row's index, health, status and docsCount;
\* list_aliases likewise with `Found N aliases` and alias, index.
C5_CatProjection ==
  /\ Succeeded("list_indices")
       => result.content = CatResult("indices", <<"index", "health", "status", "docsCount">>)
  /\ Succeeded("list_aliases")
       => result.content = CatResult("aliases", <<"alias", "index">>)
C5_Witness ==
  /\ Succeeded("list_indices")
  /\ Len(response.data.a) = 2
  /\ Get(response.data.a[2], "docsCount") = JNum(5)
  /\ result.content[1].text = "Found 2 indices"

\* C6: on a successful response get_mappings_of_index returns exactly two
\* fragments, a header and the indented JSON of the mapping object stored under
\* the requested name; with no entry for the name, or no mappings in it, the
\* second fragment holds {} and the call does not fail.
C6_MappingsOrEmpty ==
  Succeeded("get_mappings_of_index") =>
    LET entry == Get(response.data, call.name)
        stored == HasOwn(response.data, call.name) /\ Get(entry, "mappings").t = "object"
    IN /\ ~result.threw
       /\ Len(result.content) = 2
       /\ result.content[1] = Fragment("Mappings for index: " \o call.name)
       /\ result.content[2] =
            Fragment("Mappings for index " \o call.name \o ": "
                     \o (IF stored THEN Pretty(Get(entry, "mappings"), 0) ELSE "{}"))
C6_Witness ==
  /\ Succeeded("get_mappings_of_index")
  /\ HasOwn(response.data, call.name)
  /\ ~HasOwn(Get(response.data, call.name), "mappings")
  /\ result.content[2].text = "Mappings for index a: {}"

\* The configured URL is non-empty and well formed.
UrlWellFormed == Trim(config.url) # <<>> /\ IsUrl(Trim(config.url))
Served == hpc # "idle" \/ sent # <<>>

\* C7: with an empty or malformed URL the process never connects the transport
\* nor serves an invocation, and it ends with a non-zero exit code; with a
\* well-formed URL the server is built and connected; and once startup has
\* succeeded the process ends only through the interrupt signal, never through
\* the outcome of an invocation.
C7_StartupIsTheOnlyFatalStep ==
  /\ [](~UrlWellFormed => transport = "new" /\ ~Served /\ exitCode # "0")
  /\ [](UrlWellFormed => exitCode # "1" /\ (mainPc \in {"connected", "serving"} => transport # "new"))
  /\ [](proc = "exited" =>
          \/ exitCode = "1" /\ mainPc = "rejected"
          \/ exitCode = "SIGINT" /\ sigintSeen /\ ~sigintHandler
          \/ exitCode = "0" /\ sigintSeen /\ shutdown = "closed")
  /\ (~UrlWellFormed ~> (proc = "exited" /\ exitCode # "0"))
  /\ (UrlWellFormed ~> (transport = "connected" \/ proc = "exited"))
C7_Witness ==
  /\ UrlWellFormed /\ mainPc = "serving" /\ transport = "connected"
  /\ hpc = "returned" /\ IsErrorResult(result) /\ proc = "running"

\* C8 (as claimed): a process started with a well-formed URL that has received
\* SIGINT ends only with the server closed and exit code 0.
C8_SigintAlwaysClosesThenExitsZero ==
  (UrlWellFormed /\ sigintSeen /\ proc = "exited") => (exitCode = "0" /\ transport = "closed")

\* C8 (amended): a SIGINT received once the listener is installed leads to the
\* server being closed and then to exit code 0, exit never preceding the end of
\* close, also while an invocation is suspended on its fetch; a SIGINT received
\* earlier, during startup, ends the process at once without closing anything.
C8_SigintAfterStartupClosesThenExitsZero ==
  /\ [](exitCode = "0" => transport = "closed" /\ sigintSeen)
  /\ []((sigintSeen /\ proc = "exited" /\ exitCode # "0") => (~sigintHandler /\ transport # "closed"))
  /\ ((sigintSeen /\ sigintHandler) ~> (proc = "exited" /\ exitCode = "0" /\ transport = "closed"))
C8_Witness ==
  /\ sigintSeen /\ proc = "exited" /\ exitCode = "0" /\ transport = "closed"
  /\ hpc = "awaiting"

\* C9: the upstream request of an invocation is the same whatever API key is
\* configured, and it carries no Authorization header.
C9_ApiKeyNeverSent ==
  \A i \in 1..Len(sent) :
    /\ \A key \in EnvApiKeys :
         sent[i] = RequestOf([validated EXCEPT !.apiKey = Text(Trim(key))], call)
    /\ \A h \in 1..Len(sent[i].headers) :
         sent[i].headers[h].k \notin {"Authorization", "authorization"}
C9_Witness ==
  /\ validated.apiKey = "key" /\ call.tool = "search" /\ Len(sent) = 1
  /\ hpc = "returned"

\* C10: search sends one POST to {url}/{index_or_alias}/_search whose body is
\* the JSON serialization of queryBody, no key added, removed or changed; and
\* no invocation issues more than one upstream request, failed or not.
C10_QueryBodyVerbatim ==
  /\ Len(sent) <= 1
  /\ hpc \in {"awaiting", "returned"} => Len(sent) = 1
  /\ (call.tool = "search" /\ sent # <<>>) =>
       /\ sent[1].method = "POST"
       /\ sent[1].url = validated.url \o "/" \o call.name \o "/_search"
       /\ sent[1].body = Stringify(call.queryBody)
C10_Witness ==
  /\ Returned_("search") /\ response.kind = "http_error" /\ Len(sent) = 1
  /\ sent[1].body = "{\"query\":{\"match_all\":{}},\"size\":1,\"from\":2}"
====
